---------------------------- MODULE Spec2Model ----------------------------
(***************************************************************************)
(* A model of plugins/mumble_plugin_utils.h: the helpers escape, readFile, *)
(* sinCos, isBigEndian / networkToHost and the UTF-8 <-> UTF-16            *)
(* converters.  The helpers are independent of one another, so each has    *)
(* its own specification (SpecEscape, SpecUtf, SpecEndian, SpecMath,       *)
(* SpecFile); the variables of the helpers a specification does not run    *)
(* stay at their idle values.                                              *)
(***************************************************************************)
EXTENDS Integers, Sequences, FiniteSets

VARIABLES
    \* escape(char *str, const size_t &size)
    str,         \* the caller's buffer, str[0..size-1] held as a sequence 1..size
    size,        \* the declared capacity
    c,           \* the scan pointer, as an offset from str
    epc,         \* "idle", "call", "loop", "done", "ub"
    orig,        \* the buffer as the caller passed it
    charSigned,  \* whether plain char is signed in this build
    accessed,    \* offsets the call has read or written so far
    \* utf8ToUtf16 / utf16ToUtf8
    narrow,      \* the std::string given to utf8ToUtf16
    wide,        \* the wide string: utf8ToUtf16's result, or the caller's
    back,        \* the std::string utf16ToUtf8 returned
    width,       \* bytes of a wide code unit on the calling platform: 2 or 4
    upc,         \* "idle", "narrow", "wide", "done"
    origin,      \* "narrow": the wide string came from utf8ToUtf16; "wide": from the caller
    onPartial,   \* what wstring_convert does on a facet result of partial: "returns" or "throws"
    \* isBigEndian / networkToHost
    hostEndian,  \* "little" or "big"
    value,       \* the argument of networkToHost
    nret,        \* its return value
    npc,         \* "idle", "call", "done"
    \* sinCos
    platform,    \* "windows" (OS_WINDOWS defined) or "other"
    fenv,        \* the floating-point exception flags currently set
    fenvAtCall,  \* the flags that were set when sinCos was called
    angle,       \* the class of the argument
    raised,      \* the exceptions the computation itself raised
    sret,        \* the return value
    spc,         \* "idle", "call", "cleared", "computed", "done"
    \* readFile
    fileLen,     \* length of the file at path
    openOk,      \* whether the file can be opened
    failAt,      \* the offsets at which the device fails a read: empty or one offset
    implGcount,  \* whether a failed read reports the bytes delivered before the failure
    fpos,        \* the stream's read position
    iostate,     \* the stream's state bits: a subset of eofbit, failbit, badbit
    buf,         \* char buf[256]
    content,     \* std::string content
    fpc          \* "idle", "call", "loop", "done"

escapeVars == <<str, size, c, epc, orig, charSigned, accessed>>
utfVars    == <<narrow, wide, back, width, upc, origin, onPartial>>
endianVars == <<hostEndian, value, nret, npc>>
mathVars   == <<platform, fenv, fenvAtCall, angle, raised, sret, spc>>
fileVars   == <<fileLen, openOk, failAt, implGcount, fpos, iostate, buf, content, fpc>>
vars       == <<escapeVars, utfVars, endianVars, mathVars, fileVars>>

\* The state of a helper that is not being run.
IdleEscape ==
    /\ str = <<>> /\ size = 0 /\ c = 0 /\ epc = "idle" /\ orig = <<>>
    /\ charSigned = TRUE /\ accessed = {}
IdleUtf ==
    /\ narrow = <<>> /\ wide = <<>> /\ back = <<>> /\ width = 2 /\ upc = "idle"
    /\ origin = "narrow" /\ onPartial = "returns"
IdleEndian ==
    /\ hostEndian = "little" /\ value = 0 /\ nret = 0 /\ npc = "idle"
IdleMath ==
    /\ platform = "other" /\ fenv = {} /\ fenvAtCall = {} /\ angle = "zero"
    /\ raised = {} /\ sret = TRUE /\ spc = "idle"
IdleFile ==
    /\ fileLen = 0 /\ openOk = TRUE /\ failAt = {} /\ implGcount = FALSE /\ fpos = 0
    /\ iostate = {} /\ buf = <<>> /\ content = <<>> /\ fpc = "idle"

Min(a, b) == IF a < b THEN a ELSE b

(***************************************************************************)
(* escape                                                                  *)
(***************************************************************************)
\* Largest capacity of a buffer handed to escape.
MaxSize == 3
\* Byte values placed in the buffer: NUL, control bytes, the ends of the
\* printable range, the double quote, a letter, DEL and bytes above 127.
ByteVals == {0, 1, 31, 32, 34, 65, 126, 127, 128, 255}

Quote == 34
Space == 32
PrintableLow == 32
PrintableHigh == 126

\* The value of a byte read through a plain char.
AsChar(b) == IF charSigned /\ b >= 128 THEN b - 256 ELSE b

\* str[size - 1] = 0
TerminateNotForced(s, n) == s
Terminate(s, n) == [s EXCEPT ![n] = 0]

\* while (*c != '\0')
LoopCondAgainstDigit(ch) == ch # 48
LoopCond(ch) == ch # 0

\* if (*c == '"')
IsQuote(ch) == ch = AsChar(Quote)

\* if (*c < 32 || *c > 126)
NotPrintableOffByOne(ch) == ch < PrintableLow \/ ch > PrintableHigh + 1
NotPrintable(ch) == ch < PrintableLow \/ ch > PrintableHigh

\* One pass of the loop body over the byte b: the two replacements in order.
EscapeByte(b) ==
    LET b1 == IF IsQuote(AsChar(b)) THEN Space ELSE b
    IN  IF NotPrintable(AsChar(b1)) THEN Space ELSE b1

\* The call: the terminator is forced and the scan pointer set to the start.
EscapeEntry ==
    /\ epc = "call"
    /\ str' = Terminate(str, size)
    /\ accessed' = accessed \cup {size - 1}
    /\ c' = 0
    /\ epc' = "loop"
    /\ UNCHANGED <<size, orig, charSigned>>

\* One evaluation of the loop condition and, when it holds, of the body.
\* Reading past the capacity is undefined: the call is then in state "ub".
EscapeLoop ==
    /\ epc = "loop"
    /\ IF c >= size
       THEN /\ epc' = "ub"
            /\ accessed' = accessed \cup {c}
            /\ UNCHANGED <<str, c>>
       ELSE /\ accessed' = accessed \cup {c}
            /\ IF LoopCond(AsChar(str[c + 1]))
               THEN /\ str' = [str EXCEPT ![c + 1] = EscapeByte(str[c + 1])]
                    /\ c' = c + 1
                    /\ epc' = "loop"
               ELSE /\ epc' = "done"
                    /\ UNCHANGED <<str, c>>
    /\ UNCHANGED <<size, orig, charSigned>>

InitEscape ==
    /\ size \in 1..MaxSize
    /\ str \in [1..size -> ByteVals]
    /\ orig = str
    /\ charSigned \in BOOLEAN
    /\ c = 0
    /\ accessed = {}
    /\ epc = "call"
    /\ IdleUtf /\ IdleEndian /\ IdleMath /\ IdleFile

NextEscape ==
    \/ EscapeEntry /\ UNCHANGED <<utfVars, endianVars, mathVars, fileVars>>
    \/ EscapeLoop /\ UNCHANGED <<utfVars, endianVars, mathVars, fileVars>>

SpecEscape == InitEscape /\ [][NextEscape]_vars

\* Offset of the first NUL of the caller's buffer once its last byte is forced to NUL.
FirstNul ==
    LET t == [orig EXCEPT ![size] = 0]
    IN  CHOOSE k \in 0..(size - 1) :
            /\ t[k + 1] = 0
            /\ \A j \in 0..(k - 1) : t[j + 1] # 0

\* What the contract asks of a byte before the first NUL, on its value 0..255.
Expected(b) ==
    IF b = 34 \/ b < 32 \/ b > 126 THEN 32 ELSE b

\* C1: after escape(str, size) returns, the byte at index size-1 is NUL,
\* whatever the buffer held before the call.
C1_LastByteNul ==
    epc \in {"loop", "done"} => str[size] = 0

\* C1 witness: a buffer of full capacity filled with printable bytes and no
\* NUL has been escaped and ends in NUL.
C1_Witness ==
    /\ epc = "done"
    /\ size = MaxSize
    /\ \A i \in 1..size : orig[i] = 65
    /\ str[size] = 0

\* C2: after escape, every byte before the first NUL is a space if it was the
\* double quote or lay outside [32,126] (bytes 128..255 included, char signed
\* or not), and is unchanged otherwise.
C2_BytesEscaped ==
    epc = "done" =>
        \A i \in 0..(FirstNul - 1) : str[i + 1] = Expected(orig[i + 1])

\* C2 witness: a buffer holding a quote, a byte above 127 and a letter has
\* been escaped in a build whose char is signed.
C2_Witness ==
    /\ epc = "done" /\ charSigned /\ size = 3
    /\ orig = <<34, 255, 65>>
    /\ str = <<32, 32, 0>>

\* C3: every offset escape reads or writes is below size, the scan never
\* passes the first NUL, and every byte after the first NUL other than the
\* one at size-1 keeps its original value.
C3_InBoundsAndStops ==
    epc \in {"loop", "done", "ub"} =>
        /\ epc # "ub"
        /\ \A i \in accessed : i < size
        /\ c <= FirstNul
        /\ \A i \in accessed : i <= FirstNul \/ i = size - 1
        /\ \A i \in (FirstNul + 1)..(size - 2) : str[i + 1] = orig[i + 1]

\* C3 witness: the scan stopped at a NUL in the first slot, and the quote
\* behind it is untouched.
C3_Witness ==
    /\ epc = "done" /\ size = 3
    /\ orig = <<0, 34, 65>>
    /\ c = 0
    /\ str = <<0, 34, 0>>

(***************************************************************************)
(* isBigEndian / networkToHost                                             *)
(***************************************************************************)
\* The largest uint16_t.
U16Max == 65535
\* 0x01020304
Pattern == 16909060

\* The four bytes of a uint32_t as the host lays them out, lowest address first.
StoreU32(v) ==
    LET b3 == v \div 16777216
        b2 == (v \div 65536) % 256
        b1 == (v \div 256) % 256
        b0 == v % 256
    IN  IF hostEndian = "big" THEN <<b3, b2, b1, b0>> ELSE <<b0, b1, b2, b3>>

\* union SingleSplit4Bytes: single and split share the same four bytes.
SingleSplit4Bytes(v) == [single |-> v, split |-> StoreU32(v)]

\* return SingleSplit4Bytes(0x01020304).split[0] == 1;
isBigEndianTestsLowByte == SingleSplit4Bytes(Pattern).split[1] = 4
isBigEndian == SingleSplit4Bytes(Pattern).split[1] = 1

\* __builtin_bswap16 / _byteswap_ushort
bswap16(v) == (v % 256) * 256 + (v \div 256)

networkToHost(v) == IF isBigEndian THEN v ELSE bswap16(v)

NetworkToHostCall ==
    /\ npc = "call"
    /\ nret' = networkToHost(value)
    /\ npc' = "done"
    /\ UNCHANGED <<hostEndian, value>>

InitEndian ==
    /\ hostEndian \in {"little", "big"}
    /\ value \in 0..U16Max
    /\ nret = 0
    /\ npc = "call"
    /\ IdleEscape /\ IdleUtf /\ IdleMath /\ IdleFile

NextEndian ==
    NetworkToHostCall /\ UNCHANGED <<escapeVars, utfVars, mathVars, fileVars>>

SpecEndian == InitEndian /\ [][NextEndian]_vars

\* C7: networkToHost(v) is v on a big-endian host and v with its two bytes
\* swapped on a little-endian host, and isBigEndian() is true exactly when the
\* first byte in memory of 0x01020304 is 0x01; networkToHost(0x1234) is 0x3412
\* on a little-endian host and 0x1234 on a big-endian host.
C7_NetworkToHost ==
    /\ isBigEndian <=> (hostEndian = "big")
    /\ npc = "done" =>
        /\ hostEndian = "big" => nret = value
        /\ hostEndian = "little" =>
              /\ nret % 256 = value \div 256
              /\ nret \div 256 = value % 256
        /\ (value = 4660 /\ hostEndian = "little") => nret = 13330
        /\ (value = 4660 /\ hostEndian = "big") => nret = 4660

\* C7 witness: networkToHost(0x1234) has returned 0x3412 on a little-endian host.
C7_Witness ==
    npc = "done" /\ hostEndian = "little" /\ value = 4660 /\ nret = 13330

(***************************************************************************)
(* sinCos                                                                  *)
(***************************************************************************)
\* FE_ALL_EXCEPT
FeAllExcept == {"invalid", "divbyzero", "overflow", "underflow", "inexact"}
\* FE_INVALID | FE_DIVBYZERO | FE_OVERFLOW | FE_UNDERFLOW
FeTested == {"invalid", "divbyzero", "overflow", "underflow"}

\* Classes of the float argument.
Angles == {"zero", "normal", "subnormal", "huge", "inf", "nan", "snan"}

\* The exception sets the library's sine and cosine may raise on an argument:
\* an infinity or a signalling NaN is an invalid operand, a subnormal result
\* may underflow, and a rounded result is inexact.
SinCosRaises(a) ==
    CASE a = "zero"      -> {{}}
      [] a = "normal"    -> {{}, {"inexact"}}
      [] a = "huge"      -> {{}, {"inexact"}}
      [] a = "subnormal" -> {{}, {"inexact"}, {"underflow", "inexact"}}
      [] a = "inf"       -> {{"invalid"}}
      [] a = "snan"      -> {{"invalid"}}
      [] a = "nan"       -> {{}}

\* feclearexcept(excepts)
feclearexceptKeepsFlags(flags, excepts) == flags
feclearexcept(flags, excepts) == flags \ excepts

\* fetestexcept(excepts)
fetestexcept(flags, excepts) == flags \cap excepts

\* OS_WINDOWS: outSin = sin(value); outCos = cos(value); return true;
SinCosWindows ==
    /\ spc = "call" /\ platform = "windows"
    /\ \E r \in SinCosRaises(angle) :
          /\ raised' = r
          /\ fenv' = fenv \cup r
    /\ sret' = TRUE
    /\ spc' = "done"
    /\ UNCHANGED <<platform, fenvAtCall, angle>>

\* errno = 0; feclearexcept(FE_ALL_EXCEPT);
SinCosClear ==
    /\ spc = "call" /\ platform = "other"
    /\ fenv' = feclearexcept(fenv, FeAllExcept)
    /\ spc' = "cleared"
    /\ UNCHANGED <<platform, fenvAtCall, angle, raised, sret>>

\* sincosf(value, &outSin, &outCos);
SinCosCompute ==
    /\ spc = "cleared"
    /\ \E r \in SinCosRaises(angle) :
          /\ raised' = r
          /\ fenv' = fenv \cup r
    /\ spc' = "computed"
    /\ UNCHANGED <<platform, fenvAtCall, angle, sret>>

\* return fetestexcept(FE_INVALID | FE_DIVBYZERO | FE_OVERFLOW | FE_UNDERFLOW) == 0;
SinCosReturn ==
    /\ spc = "computed"
    /\ sret' = (fetestexcept(fenv, FeTested) = {})
    /\ spc' = "done"
    /\ UNCHANGED <<platform, fenv, fenvAtCall, angle, raised>>

InitMath ==
    /\ platform \in {"windows", "other"}
    /\ fenv \in SUBSET FeAllExcept
    /\ fenvAtCall = fenv
    /\ angle \in Angles
    /\ raised = {}
    /\ sret = FALSE
    /\ spc = "call"
    /\ IdleEscape /\ IdleUtf /\ IdleEndian /\ IdleFile

NextMath ==
    \/ SinCosWindows /\ UNCHANGED <<escapeVars, utfVars, endianVars, fileVars>>
    \/ SinCosClear /\ UNCHANGED <<escapeVars, utfVars, endianVars, fileVars>>
    \/ SinCosCompute /\ UNCHANGED <<escapeVars, utfVars, endianVars, fileVars>>
    \/ SinCosReturn /\ UNCHANGED <<escapeVars, utfVars, endianVars, fileVars>>

SpecMath == InitMath /\ [][NextMath]_vars

\* C9: with exception introspection sinCos returns true exactly when its own
\* computation raised none of invalid, divide-by-zero, overflow and underflow
\* (flags set before the call and an inexact exception alone do not make it
\* false); in the OS_WINDOWS branch it returns true for every input.
C9_SinCosFlag ==
    spc = "done" =>
        /\ platform = "other" =>
              (sret <=> (raised \cap {"invalid", "divbyzero", "overflow", "underflow"} = {}))
        /\ platform = "windows" => sret

\* C9 witness: sinCos was called with the invalid flag already set, its
\* computation raised only inexact, and it returned true.
C9_Witness ==
    /\ spc = "done" /\ platform = "other"
    /\ "invalid" \in fenvAtCall
    /\ raised = {"inexact"}
    /\ sret

(***************************************************************************)
(* readFile                                                                *)
(***************************************************************************)
\* Longest file read: more than two chunks.
MaxFileLen == 515
\* sizeof(buf)
BufSize == 256
\* Offsets at which the device may fail a read.
FailOffsets == {0, 1, 255, 256, 257, 300, 511, 512}

\* The byte of the file at an offset; the period is not a divisor of the
\* chunk size, so chunks differ from one another.
FileAt(i) == (i * 7 + 3) % 251
FileBytes(n) == [i \in 1..n |-> FileAt(i - 1)]

\* std::ifstream ifs(path, std::ifstream::binary): failbit when the open fails.
IfstreamOpen == IF openOk THEN {} ELSE {"failbit"}

\* ifs.good()
IsGood(st) == st = {}

\* ifs.read(&buf[0], sizeof(buf)) on a good stream at position pos: the number
\* of bytes delivered into buf, gcount(), and the stream state afterwards.  A
\* short read at end of file sets eofbit and failbit.  A device failure
\* either throws inside the stream buffer, which sets badbit and leaves
\* gcount() at 0, or is seen as a short read that reports the bytes delivered
\* before it, as the library has it (implGcount).
IfstreamRead(pos, n) ==
    LET hit   == {k \in failAt : pos <= k /\ k < Min(pos + n, fileLen)}
        fails == hit # {}
        got   == IF fails THEN (CHOOSE k \in hit : TRUE) - pos ELSE Min(n, fileLen - pos)
    IN  [ delivered |-> got,
          gcount    |-> IF fails /\ ~implGcount THEN 0 ELSE got,
          state     |-> IF fails /\ ~implGcount THEN {"badbit"}
                        ELSE IF got < n THEN {"eofbit", "failbit"} ELSE {} ]

\* if (read > 0)
ShouldAppendOnlyFullChunk(read) == read = BufSize
ShouldAppend(read) == read > 0

\* The declarations: the stream is opened, content is empty, buf is not initialised.
ReadFileOpen ==
    /\ fpc = "call"
    /\ iostate' = IfstreamOpen
    /\ content' = <<>>
    /\ buf' = [i \in 1..BufSize |-> -1]
    /\ fpos' = 0
    /\ fpc' = "loop"
    /\ UNCHANGED <<fileLen, openOk, failAt, implGcount>>

\* One evaluation of while (ifs.good()) and, when it holds, of the body;
\* otherwise return content.
ReadFileLoop ==
    /\ fpc = "loop"
    /\ IF IsGood(iostate)
       THEN LET r == IfstreamRead(fpos, BufSize)
                d == r.delivered
                g == r.gcount
            IN  /\ buf' = [i \in 1..BufSize |->
                             IF i <= d THEN FileAt(fpos + i - 1) ELSE buf[i]]
                /\ iostate' = r.state
                /\ fpos' = fpos + d
                /\ content' = IF ShouldAppend(g)
                              THEN content \o SubSeq(buf', 1, g)
                              ELSE content
                /\ fpc' = "loop"
       ELSE /\ fpc' = "done"
            /\ UNCHANGED <<iostate, fpos, buf, content>>
    /\ UNCHANGED <<fileLen, openOk, failAt, implGcount>>

InitFile ==
    /\ fileLen \in 0..MaxFileLen
    /\ openOk \in BOOLEAN
    /\ failAt \in {{}} \cup
                  (IF openOk THEN {{k} : k \in {j \in FailOffsets : j < fileLen}} ELSE {})
    /\ implGcount \in (IF failAt = {} THEN {FALSE} ELSE BOOLEAN)
    /\ fpos = 0
    /\ iostate = {}
    /\ buf = <<>>
    /\ content = <<>>
    /\ fpc = "call"
    /\ IdleEscape /\ IdleUtf /\ IdleEndian /\ IdleMath

NextFile ==
    \/ ReadFileOpen /\ UNCHANGED <<escapeVars, utfVars, endianVars, mathVars>>
    \/ ReadFileLoop /\ UNCHANGED <<escapeVars, utfVars, endianVars, mathVars>>

SpecFile == InitFile /\ [][NextFile]_vars

\* readFile runs synchronously to its return: an enabled step is taken.
SpecFileFair == SpecFile /\ WF_vars(NextFile)

\* C8: readFile returns the empty string on any I/O error: when the file
\* cannot be opened, and also when a read fails after chunks were read.
C8_EmptyOnAnyError ==
    (fpc = "done" /\ (~openOk \/ failAt # {})) => content = <<>>

\* C10: for a readable file of any length the read loop terminates and the
\* returned string is exactly the bytes of the file in file order.
C10_ReadsWholeFile ==
    (fpc = "call" /\ openOk /\ failAt = {})
        ~> (fpc = "done" /\ content = FileBytes(fileLen))

\* C10 witness: a file one byte longer than a chunk has been read to the end,
\* the final one-byte chunk arriving together with end of file.
C10_Witness ==
    /\ fpc = "done" /\ openOk /\ failAt = {}
    /\ fileLen = BufSize + 1
    /\ "eofbit" \in iostate
    /\ Len(content) = BufSize + 1

(***************************************************************************)
(* utf8ToUtf16 / utf16ToUtf8                                               *)
(***************************************************************************)
\* Longest std::string given to utf8ToUtf16.
MaxNarrowLen == 4
\* Longest wide string given to utf16ToUtf8 by the caller.
MaxWideLen == 3
\* Bytes of the narrow strings: 'A', the continuation bytes 0x80, 0x90 and
\* 0xA0, and the lead bytes 0xC3, 0xE2, 0xED and 0xF0.
NarrowBytes == {65, 128, 144, 160, 195, 226, 237, 240}
\* Units of the caller's wide strings: 'A', U+20AC, a high and a low
\* surrogate and, where a unit has 4 bytes, 0x10000 and 0x110000.
WideUnits16 == {65, 8364, 55296, 56320}
WideUnits32 == WideUnits16 \cup {65536, 1114112}

SeqsUpTo(S, n) == UNION {[1..k -> S] : k \in 0..n}

\* The default Maxcode of std::codecvt_utf8_utf16: 0x10FFFF.
MaxCodePoint == 1114111

\* (b & 0xC0) == 0x80
IsContinuation(b) == b \div 64 = 2
IsHighSurrogate(u) == u >= 55296 /\ u <= 56319
IsLowSurrogate(u) == u >= 56320 /\ u <= 57343

\* The facet's reading of one code point of s from index i: a code point and
\* its length, or an invalid sequence, or a sequence the input ends inside.
ReadUtf8CodePoint(s, i) ==
    LET avail == Len(s) - i + 1
        c1 == s[i]
        c2 == s[i + 1]
        c3 == s[i + 2]
        c4 == s[i + 3]
        Cp(v, n) == [kind |-> "cp", cp |-> v, len |-> n]
        Invalid == [kind |-> "invalid", cp |-> 0, len |-> 0]
        Incomplete == [kind |-> "incomplete", cp |-> 0, len |-> 0]
    IN  IF c1 < 128 THEN Cp(c1, 1)
        ELSE IF c1 < 194 THEN Invalid
        ELSE IF c1 < 224 THEN
            IF avail < 2 THEN Incomplete
            ELSE IF ~IsContinuation(c2) THEN Invalid
            ELSE Cp(c1 * 64 + c2 - 12416, 2)
        ELSE IF c1 < 240 THEN
            IF avail < 3 THEN Incomplete
            ELSE IF ~IsContinuation(c2) THEN Invalid
            ELSE IF c1 = 224 /\ c2 < 160 THEN Invalid
            ELSE IF ~IsContinuation(c3) THEN Invalid
            ELSE Cp(c1 * 4096 + c2 * 64 + c3 - 925824, 3)
        ELSE IF c1 < 245 THEN
            IF avail < 4 THEN Incomplete
            ELSE IF ~IsContinuation(c2) THEN Invalid
            ELSE IF c1 = 240 /\ c2 < 144 THEN Invalid
            ELSE IF c1 = 244 /\ c2 >= 144 THEN Invalid
            ELSE IF ~IsContinuation(c3) THEN Invalid
            ELSE IF ~IsContinuation(c4) THEN Invalid
            ELSE Cp(c1 * 262144 + c2 * 4096 + c3 * 64 + c4 - 63447168, 4)
        ELSE Invalid

\* A code point as UTF-16 code units: one unit up to 0xFFFF, else a high and
\* a low surrogate.
WriteUtf16CodePointAsOneUnit(cp) == <<cp>>
WriteUtf16CodePoint(cp) ==
    IF cp <= 65535 THEN <<cp>>
    ELSE <<55232 + (cp \div 1024), 56320 + (cp % 1024)>>

\* The code point a high and a low surrogate stand for.
SurrogatePairToCodePointNoOffset(hi, lo) == (hi - 55296) * 1024 + (lo - 56320)
SurrogatePairToCodePoint(hi, lo) == hi * 1024 + lo - 56613888

\* A code point as UTF-8 bytes.
WriteUtf8CodePoint(cp) ==
    IF cp < 128 THEN <<cp>>
    ELSE IF cp < 2048 THEN <<192 + (cp \div 64), 128 + (cp % 64)>>
    ELSE IF cp < 65536 THEN
        <<224 + (cp \div 4096), 128 + ((cp \div 64) % 64), 128 + (cp % 64)>>
    ELSE <<240 + (cp \div 262144), 128 + ((cp \div 4096) % 64),
           128 + ((cp \div 64) % 64), 128 + (cp % 64)>>

\* std::codecvt_utf8_utf16<Elem>::in over s from index i: ok, partial (the
\* input ends inside a sequence) or error, and the units written so far.
RECURSIVE Utf16In(_, _, _)
Utf16In(s, i, out) ==
    IF i > Len(s) THEN [result |-> "ok", out |-> out]
    ELSE LET r == ReadUtf8CodePoint(s, i)
         IN  IF r.kind = "incomplete" THEN [result |-> "partial", out |-> out]
             ELSE IF r.kind = "invalid" \/ r.cp > MaxCodePoint
                  THEN [result |-> "error", out |-> out]
             ELSE Utf16In(s, i + r.len, out \o WriteUtf16CodePoint(r.cp))

\* std::codecvt_utf8_utf16<Elem>::out over the units w from index i; Elem is
\* char16_t or char32_t, a unit of either is read as a UTF-16 code unit.
RECURSIVE Utf16Out(_, _, _)
Utf16Out(w, i, out) ==
    IF i > Len(w) THEN [result |-> "ok", out |-> out]
    ELSE LET u == w[i]
         IN  IF IsHighSurrogate(u) THEN
                 IF i + 1 > Len(w) THEN [result |-> "partial", out |-> out]
                 ELSE IF IsLowSurrogate(w[i + 1])
                      THEN Utf16Out(w, i + 2,
                               out \o WriteUtf8CodePoint(
                                          SurrogatePairToCodePoint(u, w[i + 1])))
                      ELSE [result |-> "error", out |-> out]
             ELSE IF IsLowSurrogate(u) \/ u > MaxCodePoint
                  THEN [result |-> "error", out |-> out]
             ELSE Utf16Out(w, i + 1, out \o WriteUtf8CodePoint(u))

\* std::wstring_convert: a facet result of error throws std::range_error; on
\* partial the library either returns what was converted or throws (onPartial).
Converted(r) ==
    IF r.result = "error" \/ (r.result = "partial" /\ onPartial = "throws")
    THEN [threw |-> TRUE, str |-> <<>>]
    ELSE [threw |-> FALSE, str |-> r.out]

\* conv.from_bytes(str) / conv.to_bytes(str)
FromBytes(s) == Converted(Utf16In(s, 1, <<>>))
ToBytes(w) == Converted(Utf16Out(w, 1, <<>>))

\* try { return conv.from_bytes(str); } catch (std::range_error &) { return {}; }
utf8ToUtf16(s) == LET r == FromBytes(s) IN IF r.threw THEN <<>> ELSE r.str

\* try { return conv.to_bytes(str); } catch (std::range_error &) { return {}; }
utf16ToUtf8_u16string(w) == LET r == ToBytes(w) IN IF r.threw THEN <<>> ELSE r.str
utf16ToUtf8_u32string(w) == LET r == ToBytes(w) IN IF r.threw THEN <<>> ELSE r.str

Utf8ToUtf16Call ==
    /\ upc = "narrow"
    /\ wide' = utf8ToUtf16(narrow)
    /\ upc' = "wide"
    /\ UNCHANGED <<narrow, back, width, origin, onPartial>>

Utf16ToUtf8Call16 ==
    /\ upc = "wide" /\ width = 2
    /\ back' = utf16ToUtf8_u16string(wide)
    /\ upc' = "done"
    /\ UNCHANGED <<narrow, wide, width, origin, onPartial>>

Utf16ToUtf8Call32 ==
    /\ upc = "wide" /\ width = 4
    /\ back' = utf16ToUtf8_u32string(wide)
    /\ upc' = "done"
    /\ UNCHANGED <<narrow, wide, width, origin, onPartial>>

InitUtf ==
    /\ width \in {2, 4}
    /\ onPartial \in {"returns", "throws"}
    /\ origin \in {"narrow", "wide"}
    /\ IF origin = "narrow"
       THEN /\ narrow \in SeqsUpTo(NarrowBytes, MaxNarrowLen)
            /\ wide = <<>>
            /\ upc = "narrow"
       ELSE /\ narrow = <<>>
            /\ wide \in SeqsUpTo(IF width = 2 THEN WideUnits16 ELSE WideUnits32,
                                 MaxWideLen)
            /\ upc = "wide"
    /\ back = <<>>
    /\ IdleEscape /\ IdleEndian /\ IdleMath /\ IdleFile

NextUtf ==
    \/ Utf8ToUtf16Call /\ UNCHANGED <<escapeVars, endianVars, mathVars, fileVars>>
    \/ Utf16ToUtf8Call16 /\ UNCHANGED <<escapeVars, endianVars, mathVars, fileVars>>
    \/ Utf16ToUtf8Call32 /\ UNCHANGED <<escapeVars, endianVars, mathVars, fileVars>>

SpecUtf == InitUtf /\ [][NextUtf]_vars

\* Well-formed UTF-8 (the Unicode standard's table of byte sequences):
\* shortest forms only, no encoded surrogates, nothing above U+10FFFF.
RECURSIVE WellFormedUtf8From(_, _)
WellFormedUtf8From(s, i) ==
    IF i > Len(s) THEN TRUE
    ELSE LET b == s[i]
             n == Len(s) - i + 1
             Rest(k, lo, hi) ==
                 /\ n >= k
                 /\ s[i + 1] \in lo..hi
                 /\ \A j \in 2..(k - 1) : s[i + j] \in 128..191
                 /\ WellFormedUtf8From(s, i + k)
         IN  CASE b <= 127                  -> WellFormedUtf8From(s, i + 1)
               [] b \in 194..223            -> Rest(2, 128, 191)
               [] b = 224                   -> Rest(3, 160, 191)
               [] b \in 225..236            -> Rest(3, 128, 191)
               [] b = 237                   -> Rest(3, 128, 159)
               [] b \in 238..239            -> Rest(3, 128, 191)
               [] b = 240                   -> Rest(4, 144, 191)
               [] b \in 241..243            -> Rest(4, 128, 191)
               [] b = 244                   -> Rest(4, 128, 143)
               [] OTHER                     -> FALSE
WellFormedUtf8(s) == WellFormedUtf8From(s, 1)

\* Well-formed UTF-16: every high surrogate is followed by a low one, every
\* low surrogate follows a high one, and no unit is above 0xFFFF.
WellFormedUtf16(w) ==
    \A i \in 1..Len(w) :
        /\ w[i] <= 65535
        /\ (w[i] \in 55296..56319) => (i < Len(w) /\ w[i + 1] \in 56320..57343)
        /\ (w[i] \in 56320..57343) => (i > 1 /\ w[i - 1] \in 55296..56319)

\* Code points of a UTF-8 string: its bytes that are not continuation bytes.
CodePoints(s) == Cardinality({i \in 1..Len(s) : s[i] \notin 128..191})
\* Those of them at U+10000 and above: the lead bytes of 4-byte sequences.
SuppCodePoints(s) == Cardinality({i \in 1..Len(s) : s[i] >= 240})
HighSurrogates(w) == Cardinality({i \in 1..Len(w) : w[i] \in 55296..56319})

\* C4: for every valid UTF-8 string, utf8ToUtf16 followed by utf16ToUtf8
\* returns the original bytes, on the char16_t and on the char32_t overload.
C4_RoundTrip ==
    (upc = "done" /\ origin = "narrow" /\ WellFormedUtf8(narrow)) => back = narrow

\* C4 witness: U+10000 went through the 2-byte path as a surrogate pair and
\* came back as the same four bytes.
C4_Witness ==
    /\ upc = "done" /\ origin = "narrow" /\ width = 2
    /\ narrow = <<240, 144, 128, 128>>
    /\ wide = <<55296, 56320>>
    /\ back = narrow

\* C5: when the input of utf8ToUtf16 or of either utf16ToUtf8 overload holds a
\* malformed sequence anywhere, the call returns the empty string, also when
\* a valid prefix precedes the malformed sequence.
C5_MalformedGivesEmpty ==
    /\ (upc = "wide" /\ origin = "narrow" /\ ~WellFormedUtf8(narrow)) => wide = <<>>
    /\ (upc = "done" /\ origin = "wide" /\ ~WellFormedUtf16(wide)) => back = <<>>

=============================================================================
